---- MODULE Spec2Model ----
(***************************************************************************)
(* Model of the amsla host layer: the capacity-bucketed COO layout, its    *)
(* two constructors (private/CooDataStructure.hpp and                      *)
(* details/CooDataStructure.hpp + common/source/DataStructure.cpp), the    *)
(* DeviceData handles of common/source/DeviceManagement.cpp and allNodes.  *)
(*                                                                         *)
(* Twelve specifications share the variables:                              *)
(*   SpecSize      the choice of a capacity, for input lengths up to MaxN  *)
(*                 (array contents abstracted, only the lengths are kept); *)
(*   Spec          construction of a data structure from small arrays,     *)
(*                 allNodes and destruction;                               *)
(*   SpecData      DeviceData uploads, copies, assignments, destructions   *)
(*                 and kernel launches;                                    *)
(*   SpecTransfer  one DeviceData uploaded from any small host array of    *)
(*                 any of the three host types, launched on, read back;    *)
(*   SpecSource    a DeviceSource under substituteMacro and include;       *)
(*   SpecRegistry  the accessors of the default context, device and queue; *)
(*   SpecCompile   compileKernel and compileAllKernels, the compiler's     *)
(*                 verdict on the source being an input;                   *)
(*   SpecAssert    assertThat and checkThat;                               *)
(*   SpecLayoutId  the identifier of a layout, as a string;                *)
(*   SpecReplace   the loop of iReplaceSubstring, iteration by iteration;  *)
(*   SpecEntry     the kernel allNodes takes from a compiled program;      *)
(*   SpecStaging   moveToDevice and its staging array, step by step.       *)
(***************************************************************************)
EXTENDS Integers, Sequences, FiniteSets, TLC

VARIABLES DEBUG,   \* build configuration: the DEBUG macro of Assertions.cpp
          sized,   \* SpecSize: outcome of a construction from arrays of given lengths
          ds,      \* Spec: the data structure object (impl_), or NoDS
          mem,     \* accelerator allocations (cl::Buffer contents), by buffer id
          dd,      \* SpecData: the DeviceData objects, by object id
          queue,   \* commands enqueued on the default queue and not yet completed
          last,    \* outcome of the last host call
          DataType, \* SpecData: the element type the templates are instantiated with
          sources,  \* SpecSource: the texts of the DeviceSource objects A and B
          registry  \* SpecRegistry: g_default_context, g_default_device, g_default_queue

vars == <<DEBUG, sized, ds, mem, dd, queue, last, DataType, sources, registry>>

-----------------------------------------------------------------------------
(* Bounds *)

MaxN == 200001      \* largest input length of SpecSize
MaxLen == 2         \* longest input array of Spec and of SpecData
MaxId == 1          \* largest node identifier of an input array
MaxVal == 2         \* largest element value of an input array
MaxBuffers == 4     \* accelerator allocations that can be live at once
MaxData == 2        \* DeviceData objects that can be live at once
MaxQueue == 2       \* commands that can be pending on the queue
MaxRuns == 1        \* kernel launches that act on the contents of one DeviceData
MaxSrc == 9         \* longest text of a DeviceSource
MaxTxt == 1         \* longest substitute text, and longest included text
MaxPlatforms == 2   \* most OpenCL platforms installed
MaxKernels == 2     \* most entry points of a program
MaxLog == 2         \* longest build log
MaxDiag == 4        \* longest diagnostic of an assertion
MaxEdges == 1       \* edge counts of the layouts whose identifiers are compared
MaxScan == 10       \* longest text that iReplaceSubstring is followed through
MaxEntry == 3       \* most entry points of the program that allNodes takes its kernel from

-----------------------------------------------------------------------------
(* DeviceManagement.hpp: access modes and the host types of the type bridge *)

AccessType == {"READ_ONLY", "WRITE_ONLY", "READ_AND_WRITE"}

HostTypes == {"uint", "float", "double"}

-----------------------------------------------------------------------------
(* Helpers *)

Range(s) == {s[i] : i \in 1..Len(s)}

SeqsUpTo(S, n) == UNION {[1..k -> S] : k \in 0..n}

Max(a, b) == IF a > b THEN a ELSE b

RECURSIVE Pow10(_)
Pow10(k) == IF k = 0 THEN 1 ELSE 10 * Pow10(k - 1)

\* std::ceil(std::log10(n)) for n >= 1: the least k with 10^k >= n
RECURSIVE CeilLog10From(_, _)
CeilLog10From(n, k) == IF Pow10(k) >= n THEN k ELSE CeilLog10From(n, k + 1)

CeilLog10(n) == CeilLog10From(n, 0)

-----------------------------------------------------------------------------
(* Assertions.cpp *)

\* an assertion that lets every condition pass
assert_that_never(must_be_true) == TRUE

\* assert_that throws unless the condition holds: TRUE when it returns
assert_that(must_be_true) == must_be_true

\* check_that is assert_that in a DEBUG build and does nothing otherwise
check_that(debug, must_be_true) == debug => assert_that(must_be_true)

\* the comparison a == b == c of three sizes as C++ evaluates it:
\* (a == b) converts to 0 or 1 and is then compared with c
ChainedSizeEq(a, b, c) == (IF a = b THEN 1 ELSE 0) = c

-----------------------------------------------------------------------------
(* Capacity selection *)

BucketSet == {200, 2000, 20000, 200000}

\* iComputeClosestPower without its precondition: log10(0) is -infinity,
\* and std::max(2.0, -infinity) is 2
iComputeClosestPower(n) == IF n = 0 THEN 2 ELSE Max(2, CeilLog10(n))

\* the switch of CooDataStructure::CooDataStructure (private header):
\* the capacity of the instantiated implementation, 0 for the default branch
SwitchCapacity(nearest_power) ==
    IF nearest_power \in 2..5 THEN 2 * Pow10(nearest_power) ELSE 0

\* createCooDataLayout instantiates CooDataLayout<BaseType, 100> whatever
\* max_elements it is passed
createCooDataLayout(max_elements) == 100

\* the least member of the bucket set that holds n entries, 0 when none does
SmallestBucket(n) ==
    IF \E b \in BucketSet : b >= n
    THEN CHOOSE b \in BucketSet : b >= n /\ \A c \in BucketSet : c >= n => b <= c
    ELSE 0

-----------------------------------------------------------------------------
(* Control flow of the two constructors, as a function of the build and of *)
(* the lengths of the row, column and value arrays                         *)

\* chosen is the capacity the constructor has selected when it fails: 0 when it
\* fails before selecting one
CtorError(msg, chosen) ==
    [outcome |-> "error", error |-> msg, capacity |-> chosen, ub |-> FALSE]

CtorLayout(cap, undefined) ==
    [outcome |-> "layout", error |-> "", capacity |-> cap, ub |-> undefined]

\* CooDataStructure::CooDataStructure and CooDataStructureImpl's constructor
\* (private header). copy_n reads num_elements = row_indices.size() entries of
\* each vector: reading a shorter vector past its end is undefined.
PrivateCtorFlow(debug, nr, nc, nv) ==
    LET cap == SwitchCapacity(iComputeClosestPower(nr)) IN
    IF ~check_that(debug, nr > 0)
    THEN CtorError("The input must be greater than 0.", 0)
    ELSE IF cap = 0
    THEN CtorError("Unsupported size.", 0)
    ELSE IF ~check_that(debug, ChainedSizeEq(nr, nc, nv))
    THEN CtorError("All the input vectors must have the same size.", cap)
    ELSE IF ~check_that(debug, cap >= nr)
    THEN CtorError("Cannot initialise the array.", cap)
    ELSE CtorLayout(cap, nc < nr \/ nv < nr \/ nr > cap)

\* DataStructureImpl's constructor, createCooDataLayout and CooDataLayout's
\* constructor (details header). std::copy writes the whole input into the
\* fixed array: more than max_elements entries overrun it, which is undefined.
DetailsCtorFlow(debug, nr, nc, nv) ==
    LET cap == createCooDataLayout(nr) IN
    IF ~assert_that(nc = nr /\ nv = nr)
    THEN CtorError("The input arrays should all have the same size.", 0)
    ELSE IF ~check_that(debug, ChainedSizeEq(nr, nc, nv))
    THEN CtorError("All the input vectors must have the same size.", cap)
    ELSE IF ~check_that(debug, cap >= nr)
    THEN CtorError("Cannot initialise the array.", cap)
    ELSE CtorLayout(cap, nr > cap)

\* what a construction whose behaviour is undefined can do: run on with a
\* layout, or die
UbOutcomes(flow) == IF flow.ub THEN {"layout", "crash"} ELSE {flow.outcome}

-----------------------------------------------------------------------------
(* SpecSize: construction from three arrays of the same length n *)

NoSized == [outcome |-> "none", path |-> "", n |-> 0, error |-> "",
            capacity |-> 0, ub |-> FALSE]

NoDS == [state |-> "none"]

NoLast == [op |-> "none"]

Sized(path, n, flow, outcome) ==
    [outcome |-> outcome, path |-> path, n |-> n, error |-> flow.error,
     capacity |-> flow.capacity, ub |-> flow.ub]

ConstructSizedPrivate ==
    /\ sized = NoSized
    /\ \E n \in 0..MaxN :
         LET flow == PrivateCtorFlow(DEBUG, n, n, n) IN
         \E o \in UbOutcomes(flow) : sized' = Sized("private", n, flow, o)
    /\ UNCHANGED <<DEBUG, ds, mem, dd, queue, last, DataType, sources, registry>>

ConstructSizedDetails ==
    /\ sized = NoSized
    /\ \E n \in 0..MaxN :
         LET flow == DetailsCtorFlow(DEBUG, n, n, n) IN
         \E o \in UbOutcomes(flow) : sized' = Sized("details", n, flow, o)
    /\ UNCHANGED <<DEBUG, ds, mem, dd, queue, last, DataType, sources, registry>>

NoBuffer == [live |-> FALSE]

\* no DeviceSource object
NoSources == [A |-> <<>>, B |-> <<>>]

\* the singletons once the context, the device and the queue exist, which is
\* what every specification but SpecRegistry starts from
ReadyRegistry ==
    [platforms |-> 1,
     g_default_context |-> 1, g_default_device |-> 1, g_default_queue |-> 1,
     created |-> [context |-> 1, device |-> 1, queue |-> 1]]

\* no data structure, no DeviceData, nothing allocated, nothing enqueued
InitObjects ==
    /\ sized = NoSized
    /\ ds = NoDS
    /\ mem = [b \in 1..MaxBuffers |-> NoBuffer]
    /\ dd = [d \in 1..MaxData |-> [live |-> FALSE]]
    /\ queue = <<>>
    /\ last = NoLast

InitCommon ==
    /\ InitObjects
    /\ sources = NoSources
    /\ registry = ReadyRegistry

InitSize == InitCommon /\ DEBUG \in BOOLEAN /\ DataType = "double"

NextSize ==
    \/ ConstructSizedPrivate
    \/ ConstructSizedDetails

SpecSize == InitSize /\ [][NextSize]_vars

-----------------------------------------------------------------------------
(* The accelerator: allocations and the in-order default queue *)

\* sizeof of the device types of ToDeviceType
SizeOf(ty) == IF ty = "double" THEN 8 ELSE 4

\* ToDeviceType maps uint, float and double to cl_uint, cl_float and
\* cl_double, which are the same representations: the conversion of an
\* element keeps its value
ToDeviceType(ty, v) == v

ToHostType(ty, v) == v

Buffer(bytes, mode, data) ==
    [live |-> TRUE, bytes |-> bytes, mode |-> mode, data |-> data]

\* the buffers a pending command refers to (a command retains them)
CommandBuffers(c) == Range(c.args)

QueuedBuffers(q) == UNION {CommandBuffers(q[i]) : i \in 1..Len(q)}

FreeIds(m, q) == {b \in 1..MaxBuffers : ~m[b].live /\ b \notin QueuedBuffers(q)}

NewId(m, q) == CHOOSE b \in FreeIds(m, q) : \A c \in FreeIds(m, q) : b <= c

\* cl::Buffer(context, flags, size): clCreateBuffer rejects a size of 0
CanCreate(m, q, bytes) == bytes > 0 /\ FreeIds(m, q) # {}

Release_keeps(m, b) == m

\* ~cl::Buffer of the only handle of an allocation: the allocation is released
Release(m, b) == [m EXCEPT ![b] = NoBuffer]

Increment(data) == [i \in 1..Len(data) |-> data[i] + 1]

\* the elements a kernel leaves in the output buffer: the first Len(found)
\* entries are the identifiers found, the others keep their contents
WriteFront(data, found) ==
    [i \in 1..Len(data) |-> IF i <= Len(found) THEN found[i] ELSE data[i]]

\* the node identifiers of a layout: those of the first num_edges entries
LayoutNodes(layout) ==
    {layout.row_indices[i] : i \in 1..layout.num_edges}
        \cup {layout.column_indices[i] : i \in 1..layout.num_edges}

\* the kernel simple_increment of the tests: adds one to every element of its
\* argument
SimpleIncrementKernel(m, args) ==
    [m EXCEPT ![args[1]].data = Increment(@)]

\* the dedup kernel: it reads the layout of argument 0 and writes the distinct
\* node identifiers to argument 1, in the order `order`, and their number to
\* argument 2; argument 3 is its scratch space
AllNodesKernel(m, args, order) ==
    LET found == IF Range(order) = LayoutNodes(m[args[1]].data) THEN order ELSE <<>> IN
    [m EXCEPT ![args[2]].data = WriteFront(@, found),
              ![args[3]].data = <<Len(found)>>]

\* a device on which a command has no effect by the time a later command or
\* a blocking call looks at the buffers
ExecCommand_lost(m, c) == m

\* the effect of a command on the allocations when the device completes it.
\* A command keeps the buffers it uses alive until then: what it does to a
\* buffer that the host has released meanwhile is seen by nobody.
ExecCommand(m, c) ==
    IF \E b \in CommandBuffers(c) : ~m[b].live
    THEN m
    ELSE IF c.op = "write"
    THEN [m EXCEPT ![c.args[1]].data = c.data]
    ELSE IF c.name = "simple_increment"
    THEN SimpleIncrementKernel(m, c.args)
    ELSE AllNodesKernel(m, c.args, c.data)

\* the allocations once every pending command has completed, in queue order
RECURSIVE Drain(_, _)
Drain(m, q) == IF q = <<>> THEN m ELSE Drain(ExecCommand(m, Head(q)), Tail(q))

\* writeRawDataToDevice: create a buffer of num_bytes and write the data to it
\* with a blocking write, which completes after every command enqueued before
WrittenId(m, q) == NewId(Drain(m, q), <<>>)

writeRawDataToDevice(m, q, data, num_bytes, mem_flag) ==
    [Drain(m, q) EXCEPT ![WrittenId(m, q)] = Buffer(num_bytes, mem_flag, data)]

CloneId_alias(m, q, from) == from

\* iCloneOpenClBuffer returns out_buffer, the buffer it has created
CloneId(m, q, from) == NewId(Drain(m, q), <<>>)

\* iCloneOpenClBuffer: create a buffer of num_bytes with the same access mode,
\* enqueue a copy from `from` and wait for it
iCloneOpenClBuffer(m, q, from, num_bytes, mem_flag) ==
    LET m0 == Drain(m, q) IN
    [m0 EXCEPT ![NewId(m0, <<>>)] = Buffer(num_bytes, mem_flag, m0[from].data)]

readRawDataFromDevice_nowait(m, q, b, num_elements) ==
    SubSeq(m[b].data, 1, num_elements)

\* readRawDataFromDevice: a blocking read of the first num_elements elements
readRawDataFromDevice(m, q, b, num_elements) ==
    SubSeq(Drain(m, q)[b].data, 1, num_elements)

-----------------------------------------------------------------------------
(* Spec: the COO data structure, built from small arrays *)

NodeIds == 0..MaxId

Values == 1..MaxVal

BaseType == "double"

Perms(S) == {f \in [1..Cardinality(S) -> S] : Range(f) = S}

\* output.resize(num_elements_output): truncates, or pads with zeros
Resize_keeps(v, n) == v

Resize(v, n) == [i \in 1..n |-> IF i <= Len(v) THEN v[i] ELSE 0]

iInitialiseArray_nofill(copy_from, num_elements, max_elements, garbage) ==
    [i \in 1..max_elements |->
        IF i <= Len(copy_from) THEN copy_from[i] ELSE garbage + 1]

\* iInitialiseArray (private header): copy_n of num_elements entries, then
\* fill with zeros up to max_elements. An entry read past the end of
\* copy_from is undefined: it reads as garbage.
iInitialiseArray(copy_from, num_elements, max_elements, garbage) ==
    [i \in 1..max_elements |->
        IF i <= num_elements
        THEN IF i <= Len(copy_from) THEN copy_from[i] ELSE garbage
        ELSE 0]

\* iInitialiseDataLayout (private header), after its check
iInitialiseDataLayout(row_indices, column_indices, values, max_elements, garbage) ==
    LET num_elements == Len(row_indices) IN
    [row_indices |-> iInitialiseArray(row_indices, num_elements, max_elements, garbage),
     column_indices |-> iInitialiseArray(column_indices, num_elements, max_elements, garbage),
     values |-> iInitialiseArray(values, num_elements, max_elements, garbage),
     num_nodes |-> Cardinality(Range(row_indices) \cup Range(column_indices)),
     num_edges |-> num_elements,
     max_elements |-> max_elements]

\* initialiseDeviceArray: std::copy of the whole input converted to the device
\* type, then fill with zeros up to max_elements
initialiseDeviceArray(copy_from, max_elements, ty) ==
    [i \in 1..max_elements |->
        IF i <= Len(copy_from) THEN ToDeviceType(ty, copy_from[i]) ELSE 0]

\* CooDataLayout's constructor (details header), after its check
CooDataLayout(row_indices, column_indices, values, max_elements) ==
    [row_indices |-> initialiseDeviceArray(row_indices, max_elements, "uint"),
     column_indices |-> initialiseDeviceArray(column_indices, max_elements, "uint"),
     values |-> initialiseDeviceArray(values, max_elements, BaseType),
     num_nodes |-> Cardinality(Range(row_indices) \cup Range(column_indices)),
     num_edges |-> Len(row_indices),
     max_elements |-> max_elements]

\* sizeof of the packed layout struct
LayoutBytes(max_elements) == max_elements * (4 + 4 + SizeOf(BaseType)) + 12

\* the entry points of the program built from the kernel template, in the
\* order the compiler reports them
TemplateKernels(path) == IF path = "private" THEN <<"allNodes">> ELSE <<"allNodesKernel">>

Last(op, status, error, result, ops, input) ==
    [op |-> op, status |-> status, error |-> error, result |-> result,
     ops |-> ops, input |-> input, emitted |-> <<>>,
     sizes |-> <<>>, slots |-> <<>>, threads |-> <<>>, output |-> <<>>, count |-> 0,
     again |-> FALSE]

Input(rows, cols, vals) == [rows |-> rows, cols |-> cols, vals |-> vals]

NoInput == Input(<<>>, <<>>, <<>>)

\* the inputs of a construction: every triple of arrays of the same length up
\* to MaxLen, and one triple for every combination of lengths that differ
SameLengthInputs ==
    UNION {{Input(rows, cols, vals) : rows \in [1..n -> NodeIds],
                                      cols \in [1..n -> NodeIds],
                                      vals \in [1..n -> Values]} : n \in 0..MaxLen}

MismatchedInputs ==
    {Input([x \in 1..i |-> MaxId], [x \in 1..k |-> 0], [x \in 1..j |-> 1]) :
        i \in 0..MaxLen, k \in 0..MaxLen, j \in 0..MaxLen} \ SameLengthInputs

Inputs == SameLengthInputs \cup MismatchedInputs

LiveDS(path, layout, buffer, compiled, input) ==
    [state |-> "live", path |-> path, layout |-> layout,
     device_buffer |-> buffer, compiled_kernels |-> compiled, input |-> input,
     compiles |-> Len(compiled), called |-> FALSE]

\* one data structure is constructed in a run. A construction that throws, or
\* dies, leaves no object; nothing in the
\* repository catches the exception, which ends the program
ConstructionFails(status, flow, input) ==
    /\ ds' = NoDS
    /\ last' = Last("construct", status, flow.error, <<>>, <<>>, input)
    /\ UNCHANGED <<mem, queue>>

\* CooDataStructure::CooDataStructure of the private header: select the
\* capacity, build the layout in the host struct, enqueue a non-blocking write
\* of the struct to a new buffer (private/DeviceManagement.hpp), prepare the
\* exportable source. The kernel is compiled by the first allNodes.
ConstructPrivate ==
    /\ ds = NoDS
    /\ last.op = "none"
    /\ Len(queue) < MaxQueue
    /\ \E input \in Inputs :
         LET rows == input.rows
             cols == input.cols
             vals == input.vals
             flow == PrivateCtorFlow(DEBUG, Len(rows), Len(cols), Len(vals)) IN
         \E outcome \in UbOutcomes(flow) :
            IF outcome # "layout"
            THEN ConstructionFails(outcome, flow, input)
            ELSE /\ CanCreate(mem, queue, LayoutBytes(flow.capacity))
                 /\ \E garbage \in (IF flow.ub THEN {0, MaxId} ELSE {0}) :
                      LET layout == iInitialiseDataLayout(rows, cols, vals,
                                                          flow.capacity, garbage)
                          b == NewId(mem, queue) IN
                      /\ mem' = [mem EXCEPT ![b] =
                                    Buffer(LayoutBytes(flow.capacity), "READ_AND_WRITE", <<>>)]
                      /\ queue' = Append(queue, [op |-> "write", name |-> "",
                                                 args |-> <<b>>, data |-> layout])
                      /\ ds' = LiveDS("private", layout, b, <<>>, input)
                      /\ last' = Last("construct", "ok", "", <<>>,
                                      <<"createBuffer", "enqueueWrite">>, input)
    /\ UNCHANGED <<DEBUG, sized, dd, DataType, sources, registry>>

\* DataStructureImpl's constructor (DataStructure.cpp) with the factory
\* createCooDataLayout: check the sizes, build the layout, export the sources
\* and compile every kernel, then moveToDevice with a blocking write. The
\* DeviceData that moveToDevice returns is copied into device_buffer_
\* (DeviceData has no move constructor), and the temporary is destroyed.
ConstructDetails ==
    /\ ds = NoDS
    /\ last.op = "none"
    /\ \E input \in Inputs :
         LET rows == input.rows
             cols == input.cols
             vals == input.vals
             flow == DetailsCtorFlow(DEBUG, Len(rows), Len(cols), Len(vals)) IN
         \E outcome \in UbOutcomes(flow) :
            IF outcome # "layout"
            THEN ConstructionFails(outcome, flow, input)
            ELSE LET layout == CooDataLayout(rows, cols, vals, flow.capacity)
                     bytes == LayoutBytes(flow.capacity)
                     tmp == WrittenId(mem, queue)
                     m1 == writeRawDataToDevice(mem, queue, layout, bytes, "READ_AND_WRITE")
                     b == NewId(m1, <<>>)
                     m2 == iCloneOpenClBuffer(m1, <<>>, tmp, bytes, "READ_AND_WRITE") IN
                 /\ CanCreate(Drain(mem, queue), <<>>, bytes)
                 /\ CanCreate(m1, <<>>, bytes)
                 /\ mem' = Release(m2, tmp)
                 /\ queue' = <<>>
                 /\ ds' = LiveDS("details", layout, b, TemplateKernels("details"), input)
                 /\ last' = Last("construct", "ok", "", <<>>,
                                 <<"build", "createBuffer", "write",
                                   "createBuffer", "copy", "release">>, input)
    /\ UNCHANGED <<DEBUG, sized, dd, DataType, sources, registry>>

\* if (compiled_kernels_.find(kernel_name) == compiled_kernels_.end()) of a
\* version that compiles on every call
NeedsCompile_always(d) == d.path = "private"

\* if (compiled_kernels_.find(kernel_name) == compiled_kernels_.end()), which
\* only the allNodes of the private header has
NeedsCompile(d) == d.path = "private" /\ d.compiled_kernels = <<>>

\* the kernel object that the compileKernel of OpenClWrapper.hpp returns for
\* a source that does not build: the build error is printed and dropped, and
\* the kernel is made from the unbuilt program with its error code ignored
InvalidKernels == <<"invalid">>

\* the places where a call of allNodes can fail: the compilation of its first
\* call (private header), the creation of a buffer, the write to it
\* (DataStructure.cpp uploads its three buffers), the binding of an argument,
\* the launch, a read, the final wait. A kernel that is invalid cannot be bound.
\* The allNodes of the private header never gets through its first read: the
\* output buffer it has created holds one element (AllNodesSizes), and a read
\* of max_elements elements from it is refused by the queue.
Faults(d) ==
    IF d.compiled_kernels = InvalidKernels THEN {"bind"}
    ELSE IF d.path = "private"
    THEN {"allocate", "bind", "launch", "read"}
             \cup (IF NeedsCompile(d) THEN {"compile"} ELSE {})
    ELSE {"none", "allocate", "write", "bind", "launch", "read", "wait"}

WrappedError == "std::runtime_error: Error from OpenCL backend:"
RawError == "cl::Error"

\* the exception that leaves allNodes. The private header catches cl::Error,
\* prints it and throws it again; DataStructure.cpp catches nothing, and of
\* the calls it makes only the write of writeRawDataToDevice and the read of
\* readRawDataFromDevice wrap the cl::Error in a std::runtime_error.
AllNodesError(path, fault) ==
    IF path = "details" /\ fault \in {"write", "read"} THEN WrappedError ELSE RawError

\* a call that empties the host layout of the object
AfterCall_cleared(d, fault) ==
    [d EXCEPT !.layout.num_edges = 0, !.called = TRUE]

\* the object after a call: the kernel compiled by the call is cached, also
\* when the call fails later on
AfterCall(d, fault) ==
    IF NeedsCompile(d)
    THEN [d EXCEPT !.compiled_kernels = IF fault = "compile" THEN InvalidKernels
                                        ELSE TemplateKernels("private"),
                   !.compiles = @ + 1, !.called = TRUE]
    ELSE [d EXCEPT !.called = TRUE]

\* the number of elements of the output, count and workspace buffers.
\* DataStructure.cpp uploads std::vector<uint>(vector_size), the uint 1 and
\* std::vector<uint>(2 * vector_size). The private header calls
\* createBuffer<cl_uint>(vector_size, flag): of the two createBuffer of
\* private/DeviceManagement.hpp only createBuffer(DataType const& data, flag)
\* accepts an integer, and it creates a buffer for the one element `data`.
AllNodesSizes(path, vector_size) ==
    IF path = "private" THEN <<1, 1, 1>> ELSE <<vector_size, 1, 2 * vector_size>>

\* what is bound to the argument slots 0, 1, 2, 3
AllNodesSlots ==
    <<"device_buffer", "output_buffer", "num_elements_output_buffer", "workspace_buffer">>

CeilDiv(a, b) == (a + b - 1) \div b

\* num_threads = ceil(vector_size / 64.0) * 64, and run(num_threads, num_threads):
\* the global size and the size of a work group
AllNodesThreads(vector_size) ==
    LET num_threads == CeilDiv(vector_size, 64) * 64 IN <<num_threads, num_threads>>

\* an order of the steps in which the count is read before the output
StageOrder_countfirst ==
    <<"compile", "allocate", "write", "bind", "launch", "read_count", "read_output", "wait">>

\* the steps of a call in their order in the code; the output is read before
\* the count, and the wait comes last
StageOrder ==
    <<"compile", "allocate", "write", "bind", "launch", "read_output", "read_count", "wait">>

StageIndex(stage) ==
    IF stage = "read" THEN 6
    ELSE CHOOSE i \in 1..Len(StageOrder) : StageOrder[i] = stage

\* the steps that a call on d has completed when it fails at `fault`
\* (all of them when it does not fail)
StagesDone(d, fault) ==
    LET applies(stage) ==
            /\ stage = "compile" => NeedsCompile(d)
            /\ stage = "write" => d.path = "details"
            /\ fault # "none" => StageIndex(stage) < StageIndex(fault)
    IN  SelectSeq(StageOrder, applies)

\* the record of a call: what it had allocated, bound and launched
AllNodesLast(d, fault, result, order, output, count) ==
    LET done == Range(StagesDone(d, fault)) IN
    [Last("allNodes", IF fault = "none" THEN "ok" ELSE "error",
          IF fault = "none" THEN "" ELSE AllNodesError(d.path, fault),
          result, StagesDone(d, fault), d.input)
        EXCEPT !.emitted = order,
               !.sizes = IF "allocate" \in done
                         THEN AllNodesSizes(d.path, d.layout.max_elements) ELSE <<>>,
               !.slots = IF "bind" \in done THEN AllNodesSlots ELSE <<>>,
               !.threads = IF "launch" \in done
                           THEN AllNodesThreads(d.layout.max_elements) ELSE <<>>,
               !.output = output,
               !.count = count,
               !.again = d.called]

\* the layout buffer after a kernel has run with an output buffer and a
\* workspace of one element each: what the kernel writes beyond them lands
\* somewhere, possibly in the layout
Overrun(m, b, garbage) ==
    {m, [m EXCEPT ![b].data.row_indices = [i \in 1..Len(@) |-> garbage]]}

\* DataStructureImpl::allNodes (DataStructure.cpp) and
\* CooDataStructureImpl::allNodes (private header). The private version
\* compiles its kernel on the first call and creates its three buffers without
\* writing them; the other one launches compiled_kernels_[0] and uploads
\* zero-filled vectors and the count 1. Both then bind the four arguments,
\* launch, read the output and the count back with blocking reads, wait, and
\* resize the output to the count. The three buffers die with the call.
allNodes ==
    /\ ds # NoDS
    /\ \/ \E fault \in Faults(ds) \ {"none"} :
            /\ ds' = AfterCall(ds, fault)
            /\ last' = AllNodesLast(ds, fault, <<>>, <<>>, <<>>, 0)
            /\ IF ds.path = "private" /\ fault = "read"
               THEN /\ \E garbage \in NodeIds :
                         mem' \in Overrun(Drain(mem, queue), ds.device_buffer, garbage)
                    /\ queue' = <<>>
               ELSE UNCHANGED <<mem, queue>>
       \/ /\ "none" \in Faults(ds)
          /\ LET vector_size == ds.layout.max_elements
                 sizes == AllNodesSizes(ds.path, vector_size)
                 compiled == AfterCall(ds, "none").compiled_kernels
                 m0 == Drain(mem, queue)
                 free == FreeIds(m0, <<>>) IN
             /\ Cardinality(free) >= 3
             /\ \E order \in Perms(LayoutNodes(m0[ds.device_buffer].data)) :
                  LET fill(n) == [i \in 1..n |-> 0]
                      output_buffer == NewId(m0, <<>>)
                      m1 == [m0 EXCEPT ![output_buffer] =
                                Buffer(4 * sizes[1], "WRITE_ONLY", fill(sizes[1]))]
                      num_elements_output_buffer == NewId(m1, <<>>)
                      m2 == [m1 EXCEPT ![num_elements_output_buffer] =
                                Buffer(4 * sizes[2], "WRITE_ONLY", <<1>>)]
                      workspace_buffer == NewId(m2, <<>>)
                      m3 == [m2 EXCEPT ![workspace_buffer] =
                                Buffer(4 * sizes[3], "READ_AND_WRITE", fill(sizes[3]))]
                      launch == [op |-> "kernel", name |-> compiled[1],
                                 args |-> <<ds.device_buffer, output_buffer,
                                            num_elements_output_buffer, workspace_buffer>>,
                                 data |-> order]
                      output == readRawDataFromDevice(m3, <<launch>>, output_buffer, vector_size)
                      num_elements_output ==
                          readRawDataFromDevice(m3, <<launch>>, num_elements_output_buffer, 1)[1]
                      m4 == Drain(m3, <<launch>>) IN
                  /\ mem' = Release(Release(Release(m4, output_buffer),
                                            num_elements_output_buffer), workspace_buffer)
                  /\ queue' = <<>>
                  /\ ds' = AfterCall(ds, "none")
                  /\ last' = AllNodesLast(ds, "none", Resize(output, num_elements_output),
                                          order, output, num_elements_output)
    /\ UNCHANGED <<DEBUG, sized, dd, DataType, sources, registry>>

\* the destructor of the data structure releases its device buffer
DestroyDataStructure ==
    /\ ds # NoDS
    /\ mem' = Release(mem, ds.device_buffer)
    /\ ds' = NoDS
    /\ last' = Last("destroy", "ok", "", <<>>, <<"release">>, NoInput)
    /\ UNCHANGED <<DEBUG, sized, dd, queue, DataType, sources, registry>>

\* the device completes the oldest pending command
DeviceStep ==
    /\ queue # <<>>
    /\ mem' = ExecCommand(mem, Head(queue))
    /\ queue' = Tail(queue)
    /\ UNCHANGED <<DEBUG, sized, ds, dd, last, DataType, sources, registry>>

Init == InitCommon /\ DEBUG \in BOOLEAN /\ DataType = BaseType

Next ==
    \/ ConstructPrivate
    \/ ConstructDetails
    \/ allNodes
    \/ DestroyDataStructure
    \/ DeviceStep

Spec == Init /\ [][Next]_vars

\* C1: for every input of N entries, 1 <= N <= 200000, the constructor chooses
\* a capacity, and the capacity it chooses is the smallest member of
\* {200, 2000, 20000, 200000} that is >= N
C1_SmallestBucketChosen ==
    (sized.outcome # "none" /\ sized.n \in 1..200000)
        => sized.capacity = SmallestBucket(sized.n)

\* C2: an input of more than 200000 entries makes the construction fail with
\* an error (the capacity error) and no layout is produced
C2_OverLargestBucketFails ==
    (sized.outcome # "none" /\ sized.n > 200000) => sized.outcome = "error"

-----------------------------------------------------------------------------
(* SpecData: DeviceData objects, transfers and kernels *)

NoData == [live |-> FALSE]

\* a DeviceDataImpl: buffer_, num_bytes_, access_type_. The other fields are
\* history: the size and mode the object was created or copied with, whether
\* it was made as a copy, the contents it was given plus the effect of the kernels launched on it, and
\* the number of kernels that have acted on those contents.
DeviceData(buffer, num_bytes, access_type, copied, own, runs) ==
    [live |-> TRUE, buffer_ |-> buffer, num_bytes_ |-> num_bytes,
     access_type_ |-> access_type,
     born |-> [bytes |-> num_bytes, mode |-> access_type, copied |-> copied],
     own |-> own, runs |-> runs]

LiveData == {d \in 1..MaxData : dd[d].live}

FreeData == {d \in 1..MaxData : ~dd[d].live}

DataLast(op, status, error, obj, array, result) ==
    [op |-> op, status |-> status, error |-> error, obj |-> obj,
     array |-> array, num_elements |-> 0, result |-> result, pending |-> 0,
     uploaded |-> IF op = "moveToDevice" /\ status = "ok"
                  THEN [obj |-> obj, array |-> array]
                  ELSE [obj |-> 0, array |-> <<>>]]

\* convertToDeviceArray: a new array of the device type, filled from the host
\* vector by initialiseDeviceArray
convertToDeviceArray(copy_from, ty) == initialiseDeviceArray(copy_from, Len(copy_from), ty)

\* moveToDevice of a host vector: convert, create a buffer of
\* sizeof(DeviceType) * size bytes, write it with a blocking write, and adopt
\* the buffer in a DeviceData. The creation of a buffer of 0 bytes throws.
moveToDevice(arrays) ==
    /\ FreeData # {}
    /\ \E array \in arrays, mem_flag \in AccessType :
         LET num_bytes == SizeOf(DataType) * Len(array)
             device_like_array == convertToDeviceArray(array, DataType)
             d == CHOOSE x \in FreeData : \A y \in FreeData : x <= y IN
         IF num_bytes = 0
         THEN /\ last' = DataLast("moveToDevice", "error", "clCreateBuffer", 0, array, <<>>)
              /\ UNCHANGED <<mem, dd, queue>>
         ELSE /\ CanCreate(Drain(mem, queue), <<>>, num_bytes)
              /\ mem' = writeRawDataToDevice(mem, queue, device_like_array, num_bytes, mem_flag)
              /\ queue' = <<>>
              /\ dd' = [dd EXCEPT ![d] = DeviceData(WrittenId(mem, queue), num_bytes,
                                                    mem_flag, FALSE, device_like_array, 0)]
              /\ last' = DataLast("moveToDevice", "ok", "", d, array, <<>>)
    /\ UNCHANGED <<DEBUG, sized, ds, DataType, sources, registry>>

\* DeviceData(DeviceData const&): the new object owns a clone of the buffer
CopyConstruct ==
    /\ FreeData # {}
    /\ \E other \in LiveData :
         LET d == CHOOSE x \in FreeData : \A y \in FreeData : x <= y
             m0 == Drain(mem, queue)
             from == dd[other] IN
         /\ CanCreate(m0, <<>>, from.num_bytes_)
         /\ mem' = iCloneOpenClBuffer(mem, queue, from.buffer_, from.num_bytes_,
                                      from.access_type_)
         /\ queue' = <<>>
         /\ dd' = [dd EXCEPT ![d] = DeviceData(CloneId(mem, queue, from.buffer_),
                                               from.num_bytes_, from.access_type_,
                                               TRUE, from.own, from.runs)]
         /\ last' = DataLast("copy", "ok", "", 0, <<>>, <<>>)
    /\ UNCHANGED <<DEBUG, sized, ds, DataType, sources, registry>>

\* DeviceData::operator=: nothing on self-assignment; otherwise impl_ is
\* replaced by a new DeviceDataImpl cloned from the other one, and the old
\* one is destroyed, which releases its buffer
CopyAssign ==
    /\ \E this, other \in LiveData :
         LET m0 == Drain(mem, queue)
             from == dd[other] IN
         IF this = other
         THEN /\ last' = DataLast("assign", "ok", "", 0, <<>>, <<>>)
              /\ UNCHANGED <<mem, dd, queue>>
         ELSE /\ CanCreate(m0, <<>>, from.num_bytes_)
              /\ mem' = Release(iCloneOpenClBuffer(mem, queue, from.buffer_,
                                                   from.num_bytes_, from.access_type_),
                                dd[this].buffer_)
              /\ queue' = <<>>
              /\ dd' = [dd EXCEPT ![this] = DeviceData(CloneId(mem, queue, from.buffer_),
                                                       from.num_bytes_, from.access_type_,
                                                       TRUE, from.own, from.runs)]
              /\ last' = DataLast("assign", "ok", "", 0, <<>>, <<>>)
    /\ UNCHANGED <<DEBUG, sized, ds, DataType, sources, registry>>

\* ~DeviceData: the DeviceDataImpl and its cl::Buffer are destroyed
Destroy ==
    /\ \E d \in LiveData :
         /\ mem' = Release(mem, dd[d].buffer_)
         /\ dd' = [dd EXCEPT ![d] = NoData]
         /\ last' = DataLast("destroy", "ok", "", 0, <<>>, <<>>)
    /\ UNCHANGED <<DEBUG, sized, ds, queue, DataType, sources, registry>>

\* DeviceKernel::setArgument(0, d) and DeviceKernel::run for the kernel
\* simple_increment: the launch is enqueued, the call does not wait for it
RunKernel ==
    /\ Len(queue) < MaxQueue
    /\ \E d \in LiveData :
         /\ DataType = "uint"
         /\ dd[d].access_type_ = "READ_AND_WRITE"
         /\ dd[d].runs < MaxRuns
         /\ queue' = Append(queue, [op |-> "kernel", name |-> "simple_increment",
                                    args |-> <<dd[d].buffer_>>, data |-> <<>>])
         /\ dd' = [dd EXCEPT ![d].own = Increment(@), ![d].runs = @ + 1]
         /\ last' = DataLast("run", "ok", "", d, <<>>, <<>>)
    /\ UNCHANGED <<DEBUG, sized, ds, mem, DataType, sources, registry>>

\* queue.flush() in the place of queue.finish(): the call returns while the
\* commands are still pending
waitAllDeviceOperations_flush ==
    /\ last' = [DataLast("wait", "ok", "", 0, <<>>, <<>>) EXCEPT !.pending = Len(queue)]
    /\ UNCHANGED <<DEBUG, sized, ds, mem, dd, queue, DataType, sources, registry>>

\* waitAllDeviceOperations: queue.finish(); pending is the number of commands
\* the call had to wait for
waitAllDeviceOperations ==
    /\ mem' = Drain(mem, queue)
    /\ queue' = <<>>
    /\ last' = [DataLast("wait", "ok", "", 0, <<>>, <<>>) EXCEPT !.pending = Len(queue)]
    /\ UNCHANGED <<DEBUG, sized, ds, dd, DataType, sources, registry>>

\* moveToHost<DataType>(device_data, num_elements): a blocking read of
\* sizeof(DeviceType) * num_elements bytes, converted back element by element.
\* A read of 0 bytes, or of more bytes than the buffer has, is refused by the
\* queue, and the error is wrapped.
moveToHost ==
    /\ \E d \in LiveData, num_elements \in 0..MaxLen :
         LET num_bytes == SizeOf(DataType) * num_elements
             device_like_array ==
                 readRawDataFromDevice(mem, queue, dd[d].buffer_, num_elements)
             ret_array == [i \in 1..num_elements |->
                              ToHostType(DataType, device_like_array[i])]
             \* the upload this read follows, if it is a read of the object
             \* uploaded by the call before (or by the call before reads of it)
             uploaded == IF last.uploaded.obj = d
                         THEN last.uploaded ELSE [obj |-> 0, array |-> <<>>] IN
         IF num_bytes = 0 \/ num_bytes > dd[d].num_bytes_
         THEN /\ last' = [DataLast("moveToHost", "error", "Error from OpenCL backend:",
                                   d, <<>>, <<>>)
                             EXCEPT !.num_elements = num_elements, !.uploaded = uploaded]
              /\ UNCHANGED <<mem, queue>>
         ELSE /\ mem' = Drain(mem, queue)
              /\ queue' = <<>>
              /\ last' = [DataLast("moveToHost", "ok", "", d, <<>>, ret_array)
                             EXCEPT !.num_elements = num_elements, !.uploaded = uploaded]
    /\ UNCHANGED <<DEBUG, sized, ds, dd, DataType, sources, registry>>

\* the host arrays of every length up to MaxLen over Values
HostArrays == SeqsUpTo(Values, MaxLen)

\* the host arrays 1, 2, ..., n of the tests, and the empty one
TestArrays == {[i \in 1..n |-> i] : n \in 0..MaxLen}

\* SpecData: DeviceData objects of unsigned integers made from the arrays of
\* the tests, copied, assigned, destroyed and given to the kernel.
\* DeviceManagement makes no use of check_that: the build is a release one.
InitData == InitCommon /\ DEBUG = FALSE /\ DataType = "uint"

NextData ==
    \/ moveToDevice(TestArrays)
    \/ CopyConstruct
    \/ CopyAssign
    \/ Destroy
    \/ RunKernel
    \/ waitAllDeviceOperations
    \/ DeviceStep

SpecData == InitData /\ [][NextData]_vars

\* SpecTransfer: one DeviceData at a time, of any of the three host types,
\* uploaded from any host array and read back
UploadOne == LiveData = {} /\ moveToDevice(HostArrays)

InitTransfer == InitCommon /\ DEBUG = FALSE /\ DataType \in HostTypes

NextTransfer ==
    \/ UploadOne
    \/ moveToHost
    \/ RunKernel
    \/ waitAllDeviceOperations
    \/ Destroy
    \/ DeviceStep

SpecTransfer == InitTransfer /\ [][NextTransfer]_vars

-----------------------------------------------------------------------------
(* Claims on Spec *)

SameLengths(input) ==
    Len(input.rows) = Len(input.cols) /\ Len(input.cols) = Len(input.vals)

\* C3: a construction from row, column and value arrays that do not all have
\* the same length fails with an error, before any accelerator operation
C3_MismatchedLengthsRejected ==
    (last.op = "construct" /\ ~SameLengths(last.input))
        => (last.status = "error" /\ last.ops = <<>>)

\* C4: a construction from three empty arrays fails with an error and
\* produces no layout
C4_EmptyInputRejected ==
    (last.op = "construct" /\ last.input = NoInput)
        => (last.status = "error" /\ ds = NoDS)

\* C5: in a layout constructed from N entries with capacity C, the first N
\* positions of the row, column and value arrays hold the input in input
\* order, the positions after them up to C are zero, the edge count is N,
\* the node count is the number of distinct row and column indices, and the
\* capacity field is C
C5_LayoutContents ==
    (ds # NoDS /\ SameLengths(ds.input)) =>
        LET N == Len(ds.input.rows)
            C == ds.layout.max_elements
            L == ds.layout IN
        /\ Len(L.row_indices) = C /\ Len(L.column_indices) = C /\ Len(L.values) = C
        /\ C \in {100} \cup BucketSet
        /\ \A i \in 1..N : /\ L.row_indices[i] = ds.input.rows[i]
                           /\ L.column_indices[i] = ds.input.cols[i]
                           /\ L.values[i] = ds.input.vals[i]
        /\ \A i \in (N + 1)..C : /\ L.row_indices[i] = 0
                                 /\ L.column_indices[i] = 0
                                 /\ L.values[i] = 0
        /\ L.num_edges = N
        /\ L.num_nodes = Cardinality(Range(ds.input.rows) \cup Range(ds.input.cols))

C5_Witness ==
    /\ ds # NoDS
    /\ ds.input = Input(<<1, 0>>, <<1, 1>>, <<1, 2>>)
    /\ ds.layout.num_nodes = 2
    /\ ds.layout.values[2] = 2
    /\ ds.layout.values[3] = 0

Ascending(s) == \A i \in 1..(Len(s) - 1) : s[i] < s[i + 1]

-----------------------------------------------------------------------------
(* Claims on SpecData *)

\* what a blocking read of the whole buffer of d returns
Readable(d) ==
    readRawDataFromDevice(mem, queue, dd[d].buffer_, Len(mem[dd[d].buffer_].data))

ReadableNext(d) ==
    readRawDataFromDevice(mem', queue', dd'[d].buffer_, Len(mem'[dd'[d].buffer_].data))

\* C6: copies are deep: a kernel launched on one DeviceData leaves the
\* readable contents of every other live DeviceData unchanged, in particular
\* those of the object it was copied from and of the copies made of it
C6_DeepCopy ==
    [][Len(queue') > Len(queue) =>
          \A e \in LiveData \ {last'.obj} : ReadableNext(e) = Readable(e)]_vars

C6_Witness ==
    /\ last.op = "run"
    /\ \E d \in LiveData :
         /\ d # last.obj
         /\ dd[last.obj].born.copied \/ dd[d].born.copied
         /\ dd[d].runs = 0
         /\ Readable(last.obj) = Increment(Readable(d))

RoundTripRead ==
    /\ last.op = "moveToHost"
    /\ last.uploaded.obj = last.obj
    /\ last.num_elements = Len(last.uploaded.array)

\* C8 as stated: every host array of unsigned integers, floats or doubles
\* can be uploaded, and reading it back at once with its length returns an
\* array equal to it
C8_RoundTripEveryArray ==
    /\ last.op = "moveToDevice" => last.status = "ok"
    /\ RoundTripRead => (last.status = "ok" /\ last.result = last.uploaded.array)

\* C8 for the arrays that have at least one element: the upload succeeds and
\* the read returns an array equal to the uploaded one
C8_RoundTripNonEmpty ==
    /\ (last.op = "moveToDevice" /\ last.array # <<>>) => last.status = "ok"
    /\ RoundTripRead => (last.status = "ok" /\ last.result = last.uploaded.array)

C8_Witness ==
    /\ RoundTripRead
    /\ last.result = <<2, 1>>

-----------------------------------------------------------------------------
(* DeviceSource: texts, macro substitution and inclusion (SpecSource) *)

\* the characters of a source text: the macro delimiter, a letter, and the
\* line break that include() inserts
SrcChars == {"_", "X"}
NL == "\n"

SourceTexts == SeqsUpTo(SrcChars, MaxSrc)
SubstituteTexts == SeqsUpTo(SrcChars, MaxTxt)
MacroNames == {<<"X">>}

\* "__" + macro_name + "__"
MacroToken(macro_name) == <<"_", "_">> \o macro_name \o <<"_", "_">>

\* to_find occurs in in_string at position i (positions count from 1)
OccursAt(in_string, to_find, i) ==
    /\ i >= 1
    /\ i + Len(to_find) - 1 <= Len(in_string)
    /\ \A k \in 1..Len(to_find) : in_string[i + k - 1] = to_find[k]

Contains(in_string, to_find) ==
    \E i \in 1..(Len(in_string) + 1) : OccursAt(in_string, to_find, i)

\* std::string::find(to_find, index): the first position >= index where
\* to_find occurs, 0 for npos
Find(in_string, to_find, index) ==
    LET hits == {i \in index..(Len(in_string) + 1) : OccursAt(in_string, to_find, i)}
    IN  IF hits = {} THEN 0 ELSE CHOOSE i \in hits : \A j \in hits : i <= j

\* std::string::replace(index, length, replace_with)
StringReplace(in_string, index, length, replace_with) ==
    SubSeq(in_string, 1, index - 1) \o replace_with
        \o SubSeq(in_string, index + length, Len(in_string))

\* the loop of iReplaceSubstring: find from index, replace, and go on behind
\* the text just put in
RECURSIVE ReplaceFrom(_, _, _, _)
ReplaceFrom(in_string, to_replace, replace_with, index) ==
    LET found == Find(in_string, to_replace, index)
    IN  IF found = 0
        THEN in_string
        ELSE ReplaceFrom(StringReplace(in_string, found, Len(to_replace), replace_with),
                         to_replace, replace_with, found + Len(replace_with))

iReplaceSubstringChecks(debug, in_string, to_replace) ==
    check_that(debug, to_replace # <<>> /\ in_string # <<>>)

iReplaceSubstring(in_string, to_replace, replace_with) ==
    ReplaceFrom(in_string, to_replace, replace_with, 1)

SourceLast(op, status, target, arg, name, text) ==
    [op |-> op, status |-> status, target |-> target, arg |-> arg,
     name |-> name, text |-> text]

SourceNames == {"A", "B"}

\* A.substituteMacro(macro_name, substitute_text)
substituteMacro ==
    \E macro_name \in MacroNames, substitute_text \in SubstituteTexts :
        LET token == MacroToken(macro_name)
            ok == iReplaceSubstringChecks(DEBUG, sources.A, token)
            text_ == iReplaceSubstring(sources.A, token, substitute_text)
        IN  /\ ok => Len(text_) <= MaxSrc
            /\ sources' = IF ok THEN [sources EXCEPT !.A = text_] ELSE sources
            /\ last' = SourceLast("substituteMacro", IF ok THEN "ok" ELSE "error",
                                  "A", "A", macro_name, substitute_text)
            /\ UNCHANGED <<DEBUG, sized, ds, mem, dd, queue, DataType, registry>>

\* source_to_include.text_ + "\n" + text_, without the line break
IncludedText_append(text_, included) == text_ \o <<NL>> \o included

\* DeviceSourceImpl::include: source_to_include.text_ + "\n" + text_
IncludedText(text_, included) == included \o <<NL>> \o text_

\* A.include(B), or A.include(A)
include ==
    \E arg \in SourceNames :
        LET text_ == IncludedText(sources.A, sources[arg])
        IN  /\ Len(text_) <= MaxSrc
            /\ sources' = [sources EXCEPT !.A = text_]
            /\ last' = SourceLast("include", "ok", "A", arg, <<>>, <<>>)
            /\ UNCHANGED <<DEBUG, sized, ds, mem, dd, queue, DataType, registry>>

InitSource ==
    /\ InitObjects
    /\ DEBUG \in BOOLEAN
    /\ DataType = BaseType
    /\ registry = ReadyRegistry
    /\ sources \in [A : SourceTexts, B : SubstituteTexts]

NextSource == substituteMacro \/ include

SpecSource == InitSource /\ [][NextSource]_vars

\* the text holds no macro delimiter character, hence no macro token
NoMacroToken(text) == \A i \in 1..Len(text) : text[i] # "_"

\* C11: after substituteMacro(name, text) with a text that contains no macro
\* token, the source contains no occurrence of __name__, and calling
\* substituteMacro(name, text) once more leaves the source as it is
C11_SubstituteExhaustive ==
    (last.op = "substituteMacro" /\ last.status = "ok" /\ NoMacroToken(last.text))
        => /\ ~Contains(sources.A, MacroToken(last.name))
           /\ iReplaceSubstring(sources.A, MacroToken(last.name), last.text) = sources.A

\* C12 as stated: after A.include(B) the text of A is the text of B followed
\* by the previous text of A, and B is unchanged
C12_IncludePrepends ==
    [][last'.op = "include"
        => /\ sources'.A = sources[last'.arg] \o sources.A
           /\ sources'[last'.arg] = sources[last'.arg]]_vars

\* C12 with the line break: after A.include(S) the text of A is the previous
\* text of S, a line break, and the previous text of A; the included source
\* is unchanged when it is another object than A
C12_IncludePrependsLine ==
    [][last'.op = "include"
        => /\ sources'.A = sources[last'.arg] \o <<NL>> \o sources.A
           /\ last'.arg # "A" => sources'[last'.arg] = sources[last'.arg]]_vars

C12_Witness ==
    /\ last.op = "include"
    /\ last.arg = "B"
    /\ sources.B = <<"X">>
    /\ sources.A = <<"X", NL, "_", "_">>

-----------------------------------------------------------------------------
(* The default context, device and queue (SpecRegistry) *)

\* a std::unique_ptr that holds nothing
Unset == 0

\* if (!g_default_...) of a mutant that creates on every call
IsUnset_always(handle) == TRUE

\* if (!g_default_...)
IsUnset(handle) == handle = Unset

\* what the driver does during one call: whether cl::Platform::get throws
\* when it finds no platform, whether a context, a queue can be created, how
\* many devices the context passed in holds, and what the read of
\* platforms[platform_number] beyond the end of the vector leads to
DriverOutcomes ==
    [get_throws : BOOLEAN, context_ok : BOOLEAN, queue_ok : BOOLEAN,
     devices : 0..1, beyond_end : {"error", "created"}]

\* an accessor's way out: a handle, or an exception
Returned(reg, handle) ==
    [reg |-> reg, status |-> "ok", error |-> "none", result |-> handle]
Thrown(reg, error) ==
    [reg |-> reg, status |-> "error", error |-> error, result |-> Unset]

\* g_default_... = std::unique_ptr<...>(new ...): the object is numbered by
\* the count of the objects of its kind created so far
Created(reg, kind, field) ==
    LET n == reg.created[kind] + 1
    IN  [reg EXCEPT !.created[kind] = n, ![field] = n]

\* iDefaultContext(platform_number)
DefaultContext(reg, platform_number, drv) ==
    IF ~IsUnset(reg.g_default_context)
    THEN Returned(reg, reg.g_default_context)
    ELSE IF reg.platforms = 0
    THEN IF drv.get_throws THEN Thrown(reg, "cl::Error")
                           ELSE Thrown(reg, "No OpenCL platforms found.")
    ELSE IF platform_number >= reg.platforms /\ drv.beyond_end = "error"
    THEN Thrown(reg, "cl::Error")
    ELSE IF platform_number < reg.platforms /\ ~drv.context_ok
    THEN Thrown(reg, "cl::Error")
    ELSE LET made == Created(reg, "context", "g_default_context")
         IN  Returned(made, made.g_default_context)

\* iDefaultDevice(context), the context already evaluated
DefaultDevice(reg, drv) ==
    IF ~IsUnset(reg.g_default_device)
    THEN Returned(reg, reg.g_default_device)
    ELSE IF ~assert_that(drv.devices > 0)
    THEN Thrown(reg, "The OpenCL context does not contain any devices.")
    ELSE LET made == Created(reg, "device", "g_default_device")
         IN  Returned(made, made.g_default_device)

\* new cl::CommandQueue(context, device, 0) of a build without exceptions:
\* the object is stored whether or not the driver made a queue
NewCommandQueue_noexcept(reg, drv) ==
    LET made == Created(reg, "queue", "g_default_queue")
    IN  Returned(made, made.g_default_queue)

\* g_default_queue = std::unique_ptr(new cl::CommandQueue(context, device, 0))
NewCommandQueue(reg, drv) ==
    IF ~drv.queue_ok
    THEN Thrown(reg, "cl::Error")
    ELSE LET made == Created(reg, "queue", "g_default_queue")
         IN  Returned(made, made.g_default_queue)

\* iDefaultQueue(context), the context already evaluated
DefaultQueue(reg, drv) ==
    IF ~IsUnset(reg.g_default_queue)
    THEN Returned(reg, reg.g_default_queue)
    ELSE LET device == DefaultDevice(reg, drv)
         IN  IF device.status = "error" THEN device
             ELSE NewCommandQueue(device.reg, drv)

\* the context argument of iDefaultDevice and iDefaultQueue: the default
\* argument iDefaultContext(), or a context of the caller's
ContextArgs == {"default", "other"}

\* evaluation of the argument: "default" calls iDefaultContext()
ContextArgument(reg, arg, drv) ==
    IF arg = "default" THEN DefaultContext(reg, 0, drv) ELSE Returned(reg, 2)

RegistryLast(op, out, arg, drv) ==
    [op |-> op, status |-> out.status, error |-> out.error,
     result |-> out.result, arg |-> arg, drv |-> drv]

RegistryCall(op, out, arg, drv) ==
    /\ registry' = out.reg
    /\ last' = RegistryLast(op, out, arg, drv)
    /\ UNCHANGED <<DEBUG, sized, ds, mem, dd, queue, DataType, sources>>

iDefaultContext ==
    \E platform_number \in 0..(MaxPlatforms - 1), drv \in DriverOutcomes :
        RegistryCall("iDefaultContext",
                     DefaultContext(registry, platform_number, drv),
                     platform_number, drv)

iDefaultDevice ==
    \E arg \in ContextArgs, drv \in DriverOutcomes :
        LET context == ContextArgument(registry, arg, drv)
        IN  RegistryCall("iDefaultDevice",
                         IF context.status = "error" THEN context
                         ELSE DefaultDevice(context.reg, drv),
                         arg, drv)

iDefaultQueue ==
    \E arg \in ContextArgs, drv \in DriverOutcomes :
        LET context == ContextArgument(registry, arg, drv)
        IN  RegistryCall("iDefaultQueue",
                         IF context.status = "error" THEN context
                         ELSE DefaultQueue(context.reg, drv),
                         arg, drv)

NoRegistry ==
    [g_default_context |-> Unset, g_default_device |-> Unset,
     g_default_queue |-> Unset,
     created |-> [context |-> 0, device |-> 0, queue |-> 0]]

InitRegistry ==
    /\ InitObjects
    /\ DEBUG = FALSE
    /\ DataType = BaseType
    /\ sources = NoSources
    /\ \E platforms \in 0..MaxPlatforms :
           registry = [platforms |-> platforms] @@ NoRegistry

NextRegistry == iDefaultContext \/ iDefaultDevice \/ iDefaultQueue

SpecRegistry == InitRegistry /\ [][NextRegistry]_vars

RegistryOps == {"iDefaultContext", "iDefaultDevice", "iDefaultQueue"}

\* the singleton that an accessor returns
SingletonOf(reg, op) ==
    CASE op = "iDefaultContext" -> reg.g_default_context
      [] op = "iDefaultDevice" -> reg.g_default_device
      [] op = "iDefaultQueue" -> reg.g_default_queue

\* C13: the context, the device and the queue are each created at most once;
\* a singleton that is set is never replaced, and an accessor that returns
\* returns its singleton, whatever arguments the call passes
C13_CreatedOnce ==
    [][/\ \A kind \in {"context", "device", "queue"} : registry'.created[kind] <= 1
       /\ \A op \in RegistryOps :
              SingletonOf(registry, op) # Unset
                  => SingletonOf(registry', op) = SingletonOf(registry, op)
       /\ (last'.op \in RegistryOps /\ last'.status = "ok")
              => last'.result = SingletonOf(registry', last'.op)]_vars

\* all three singletons exist and a later call with other arguments has
\* returned one of them
C13_Witness ==
    /\ last.op = "iDefaultQueue"
    /\ last.arg = "other"
    /\ last.status = "ok"
    /\ last.result = 1
    /\ registry.created = [context |-> 1, device |-> 1, queue |-> 1]

\* C14: a first use that finds no platform, or a context without devices, or
\* that cannot create the queue, ends in an error and returns no handle, and
\* the singleton it was to create stays unset; a call that returns, returns
\* a handle that is set
C14_FailureLeavesUnset ==
    [][/\ (/\ last'.op = "iDefaultContext"
           /\ registry.g_default_context = Unset
           /\ registry.platforms = 0)
              => (/\ last'.status = "error"
                  /\ last'.result = Unset
                  /\ registry'.g_default_context = Unset)
       /\ (/\ last'.op = "iDefaultDevice"
           /\ registry.g_default_device = Unset
           /\ last'.drv.devices = 0)
              => (/\ last'.status = "error"
                  /\ last'.result = Unset
                  /\ registry'.g_default_device = Unset)
       /\ (/\ last'.op = "iDefaultQueue"
           /\ registry.g_default_queue = Unset
           /\ ~last'.drv.queue_ok)
              => (/\ last'.status = "error"
                  /\ last'.result = Unset
                  /\ registry'.g_default_queue = Unset)
       /\ (last'.op \in RegistryOps /\ last'.status = "ok")
              => last'.result # Unset]_vars

\* the queue could not be created although the context and the device
\* could: the call has failed and there is still no queue
C14_Witness ==
    /\ last.op = "iDefaultQueue"
    /\ last.status = "error"
    /\ last.error = "cl::Error"
    /\ ~last.drv.queue_ok
    /\ registry.g_default_context # Unset
    /\ registry.g_default_device # Unset
    /\ registry.g_default_queue = Unset

\* C15: when waitAllDeviceOperations has returned, no command enqueued before
\* the call is pending, and every DeviceData holds what the writes, copies
\* and kernel launches issued on it so far leave in it
C15_WaitCompletesAll ==
    last.op = "wait"
        => /\ queue = <<>>
           /\ \A d \in LiveData : mem[dd[d].buffer_].data = dd[d].own

\* the call waited for a kernel launch, whose effect is now in the buffer
C15_Witness ==
    /\ last.op = "wait"
    /\ last.pending >= 1
    /\ \E d \in LiveData :
           /\ dd[d].runs = 1
           /\ mem[dd[d].buffer_].data = <<2, 3>>

-----------------------------------------------------------------------------
(* Kernel compilation (SpecCompile) *)

\* names of entry points: those a source defines, and one that none defines
KernelNames == {<<"a">>, <<"b">>}
RequestedNames == KernelNames \cup {<<"c">>}

\* the entry points of a program, in the order the driver lists them
KernelLists ==
    {ks \in SeqsUpTo(KernelNames, MaxKernels) :
        \A i, j \in 1..Len(ks) : i # j => ks[i] # ks[j]}

BuildLogs == SeqsUpTo({"e", NL}, MaxLog)

\* the shared device functions that compileAllKernels includes: helper
\* functions, no entry point
iExportDeviceFunctions == <<"X">>

\* what the driver makes of a source text: whether the program object can be
\* created, whether the source builds, the build log, and the entry points of
\* the built program. A text without anything in it builds and has none.
CompilerVerdicts(text_) ==
    {v \in [program_ok : BOOLEAN, builds : BOOLEAN, log : BuildLogs,
            kernels : KernelLists] :
        /\ text_ = <<>> => v.builds
        /\ (text_ = <<>> \/ ~v.builds) => v.kernels = <<>>}

\* CL_PROGRAM_KERNEL_NAMES: the names separated by semicolons
RECURSIVE ProgramKernelNames(_)
ProgramKernelNames(kernels) ==
    IF kernels = <<>> THEN <<>>
    ELSE IF Len(kernels) = 1 THEN Head(kernels)
    ELSE Head(kernels) \o <<";">> \o ProgramKernelNames(Tail(kernels))

\* the loop of iGetKernelNames: cut names_in_string at every ";"
RECURSIVE SplitNames(_)
SplitNames(names_in_string) ==
    LET split_position == Find(names_in_string, <<";">>, 1)
    IN  IF split_position = 0
        THEN <<>>
        ELSE <<SubSeq(names_in_string, 1, split_position - 1)>>
                 \o SplitNames(SubSeq(names_in_string, split_position + 1,
                                      Len(names_in_string)))

\* iGetKernelNames: the names of the program, a ";" appended, cut at ";"
iGetKernelNames(kernels) == SplitNames(ProgramKernelNames(kernels) \o <<";">>)

iNewLine == <<NL>>

CompileError(type, message) == [type |-> type, message |-> message]
NoError == CompileError("none", <<>>)

\* a build error that leaves the log out
iCreateBuildError_nolog(build_log) ==
    CompileError("std::runtime_error",
                 <<"Error when building OpenCL source:">> \o iNewLine \o iNewLine)

\* iCreateBuildError: the heading, two line breaks, the build log
iCreateBuildError(build_log) ==
    CompileError("std::runtime_error",
                 <<"Error when building OpenCL source:">> \o iNewLine \o iNewLine
                     \o build_log)

EmptyKernelError == CompileError("std::runtime_error", <<"Empty kernel provided.">>)
NotFoundError ==
    CompileError("std::runtime_error", <<"Source does not contain required kernel.">>)

Compiled(status, error, kernels) ==
    [status |-> status, error |-> error, kernels |-> kernels]

\* cl::Kernel(program, name): the driver refuses a name that is no entry point
KernelExists(verdict, curr_name) == curr_name \in Range(verdict.kernels)

\* compileAllKernels(kernel_source): the DeviceKernels by their names
CompileAll(debug, text_, verdict) ==
    IF ~check_that(debug, text_ # <<>>)
    THEN Compiled("error", EmptyKernelError, <<>>)
    ELSE IF ~verdict.program_ok
    THEN Compiled("error", CompileError("cl::Error", <<>>), <<>>)
    ELSE IF ~verdict.builds
    THEN Compiled("error", iCreateBuildError(verdict.log), <<>>)
    ELSE LET kernel_names == iGetKernelNames(verdict.kernels)
         IN  IF \E i \in 1..Len(kernel_names) : ~KernelExists(verdict, kernel_names[i])
             THEN Compiled("error", iCreateBuildError(verdict.log), <<>>)
             ELSE Compiled("ok", NoError, kernel_names)

\* compileKernel(kernel_source, kernel_name)
CompileOne(debug, text_, kernel_name, verdict) ==
    IF ~check_that(debug, text_ # <<>> /\ kernel_name # <<>>)
    THEN Compiled("error", EmptyKernelError, <<>>)
    ELSE LET all_kernels == CompileAll(debug, text_, verdict)
         IN  IF all_kernels.status = "error"
             THEN all_kernels
             ELSE IF kernel_name \in Range(all_kernels.kernels)
             THEN Compiled("ok", NoError, <<kernel_name>>)
             ELSE Compiled("error", NotFoundError, <<>>)

CompileLast(op, kernel_name, verdict, out) ==
    [op |-> op, status |-> out.status, error |-> out.error,
     result |-> out.kernels, name |-> kernel_name, verdict |-> verdict,
     source_string |-> IncludedText(sources.A, iExportDeviceFunctions)]

compileAllKernels ==
    \E verdict \in CompilerVerdicts(sources.A) :
        /\ last' = CompileLast("compileAllKernels", <<>>, verdict,
                               CompileAll(DEBUG, sources.A, verdict))
        /\ UNCHANGED <<DEBUG, sized, ds, mem, dd, queue, DataType, sources, registry>>

compileKernel ==
    \E kernel_name \in RequestedNames, verdict \in CompilerVerdicts(sources.A) :
        /\ last' = CompileLast("compileKernel", kernel_name, verdict,
                               CompileOne(DEBUG, sources.A, kernel_name, verdict))
        /\ UNCHANGED <<DEBUG, sized, ds, mem, dd, queue, DataType, sources, registry>>

InitCompile ==
    /\ InitObjects
    /\ DEBUG \in BOOLEAN
    /\ DataType = BaseType
    /\ registry = ReadyRegistry
    /\ sources \in [A : {<<>>, <<"X">>}, B : {<<>>}]

NextCompile == compileKernel \/ compileAllKernels

SpecCompile == InitCompile /\ [][NextCompile]_vars

\* C16: compileKernel(source, name) on a source that builds returns a kernel
\* named name when the program has an entry point of that name, and fails
\* with the not-found error, which no build failure raises, when it has not
C16_FoundOrNotFound ==
    (/\ last.op = "compileKernel"
     /\ sources.A # <<>>
     /\ last.verdict.program_ok
     /\ last.verdict.builds)
        => IF last.name \in Range(last.verdict.kernels)
           THEN last.status = "ok" /\ last.result = <<last.name>>
           ELSE /\ last.status = "error"
                /\ last.error = NotFoundError
                /\ \A log \in BuildLogs : last.error # iCreateBuildError(log)

\* C17: compileKernel and compileAllKernels on a source that the compiler
\* rejects fail with the build error, whose message ends in the build log
\* as the compiler gave it, and return no kernel
C17_BuildErrorCarriesLog ==
    (/\ last.op \in {"compileKernel", "compileAllKernels"}
     /\ last.verdict.program_ok
     /\ ~last.verdict.builds)
        => /\ last.status = "error"
           /\ last.error.type = "std::runtime_error"
           /\ last.error.message =
                  <<"Error when building OpenCL source:", NL, NL>> \o last.verdict.log
           /\ last.result = <<>>

C17_Witness ==
    /\ last.op = "compileKernel"
    /\ ~last.verdict.builds
    /\ last.verdict.log = <<"e", NL>>
    /\ last.status = "error"
    /\ last.error.message = <<"Error when building OpenCL source:", NL, NL, "e", NL>>

-----------------------------------------------------------------------------
(* Claims on the failures and on the compilation of allNodes (Spec) *)

\* C18: every failure of an allNodes call reaches the caller as the one
\* wrapped error kind; no cl::Error of the driver leaves the call
C18_FailuresWrapped ==
    (last.op = "allNodes" /\ last.status = "error") => last.error = WrappedError

-----------------------------------------------------------------------------
(* Claim on the order of the queue (SpecTransfer) *)

-----------------------------------------------------------------------------
(* Assertions (SpecAssert) *)

Diagnostics == SeqsUpTo({"D", "u"}, MaxDiag)

\* the way out of assert_that(must_be_true, diagnostic): it returns, or it
\* throws std::runtime_error(diagnostic)
AssertOutcome(passes, diagnostic) ==
    IF passes
    THEN [status |-> "ok", error |-> NoError]
    ELSE [status |-> "error", error |-> CompileError("std::runtime_error", diagnostic)]

AssertLast(op, must_be_true, diagnostic, out) ==
    [op |-> op, status |-> out.status, error |-> out.error,
     must_be_true |-> must_be_true, diagnostic |-> diagnostic]

\* assertThat(must_be_true, diagnostic), the assert_that of Assertions.cpp
assertThat ==
    \E must_be_true \in BOOLEAN, diagnostic \in Diagnostics :
        /\ last' = AssertLast("assertThat", must_be_true, diagnostic,
                              AssertOutcome(assert_that(must_be_true), diagnostic))
        /\ UNCHANGED <<DEBUG, sized, ds, mem, dd, queue, DataType, sources, registry>>

\* checkThat(must_be_true, diagnostic), the check_that of Assertions.cpp
checkThat ==
    \E must_be_true \in BOOLEAN, diagnostic \in Diagnostics :
        /\ last' = AssertLast("checkThat", must_be_true, diagnostic,
                              AssertOutcome(check_that(DEBUG, must_be_true), diagnostic))
        /\ UNCHANGED <<DEBUG, sized, ds, mem, dd, queue, DataType, sources, registry>>

InitAssert == InitCommon /\ DEBUG \in BOOLEAN /\ DataType = BaseType

NextAssert == assertThat \/ checkThat

SpecAssert == InitAssert /\ [][NextAssert]_vars

\* C21: assertThat(condition, diagnostic) throws a std::runtime_error whose
\* message is the diagnostic when the condition is false, and returns, with
\* nothing of the program's state changed, when it is true
C21_AssertThat ==
    [][last'.op = "assertThat"
        => /\ last'.must_be_true
               => /\ last'.status = "ok"
                  /\ last'.error = NoError
           /\ ~last'.must_be_true
               => /\ last'.status = "error"
                  /\ last'.error.type = "std::runtime_error"
                  /\ last'.error.message = last'.diagnostic
           /\ UNCHANGED <<DEBUG, sized, ds, mem, dd, queue, DataType, sources, registry>>]_vars

C21_Witness ==
    /\ last.op = "assertThat"
    /\ ~last.must_be_true
    /\ last.status = "error"
    /\ last.error.message = <<"D", "u", "u", "D">>

-----------------------------------------------------------------------------
(* Claims on the buffers, the launch and the result of allNodes (Spec) *)

\* stage a is completed before stage b in the record of a call
Before(ops, a, b) ==
    \E i, j \in 1..Len(ops) : i < j /\ ops[i] = a /\ ops[j] = b

\* C22: an allNodes call that launches its kernel has allocated an output
\* buffer of capacity elements, a count buffer of one element and a workspace
\* of 2 x capacity elements, and has bound the layout's buffer, the output,
\* the count and the workspace to the slots 0, 1, 2, 3 before the launch
C22_BuffersAndSlots ==
    (last.op = "allNodes" /\ "launch" \in Range(last.ops))
        => /\ last.sizes = <<ds.layout.max_elements, 1, 2 * ds.layout.max_elements>>
           /\ last.slots = <<"device_buffer", "output_buffer",
                             "num_elements_output_buffer", "workspace_buffer">>
           /\ Before(last.ops, "allocate", "bind")
           /\ Before(last.ops, "bind", "launch")

\* the list returned is the first count entries of the output as read back
FirstCountEntries ==
    /\ Len(last.result) = last.count
    /\ \A i \in 1..last.count : last.result[i] = last.output[i]

C24_LaunchSizes ==
    (last.op = "allNodes" /\ "launch" \in Range(last.ops))
        => LET capacity == ds.layout.max_elements
               global == last.threads[1]
               local == last.threads[2]
           IN /\ global >= capacity
              /\ global < capacity + 64
              /\ global % 64 = 0
              /\ local = 64
              /\ global % local = 0

\* the capacity, the edge count, the node count and the three arrays of the
\* host layout are after a call what they were before it
HostLayoutKept == ds'.layout = ds.layout

\* two successful calls in a row
TwoResults ==
    /\ last.op = "allNodes" /\ last.status = "ok"
    /\ last'.op = "allNodes" /\ last'.status = "ok"

-----------------------------------------------------------------------------
(* The identifier of a layout (SpecLayoutId) *)

\* the string literals of the identifier, as the sequences of their characters
CooMaxElementsText ==
    <<"C", "o", "o", "M", "a", "x", "E", "l", "e", "m", "e", "n", "t", "s">>

BaseTypeText == <<"B", "a", "s", "e", "T", "y", "p", "e">>

DigitChars == <<"0", "1", "2", "3", "4", "5", "6", "7", "8", "9">>

\* std::to_string of an unsigned number: its decimal digits
RECURSIVE to_string(_)
to_string(n) ==
    IF n < 10 THEN <<DigitChars[n + 1]>>
    ELSE to_string(n \div 10) \o <<DigitChars[(n % 10) + 1]>>

\* every type is given the name of float
typeName_same(type) == <<"f", "l", "o", "a", "t">>

\* typeName<BaseType>() of details/DeviceManagement.hpp
typeName(type) ==
    CASE type = "double" -> <<"d", "o", "u", "b", "l", "e">>
      [] type = "float" -> <<"f", "l", "o", "a", "t">>
      [] type = "uint" -> <<"u", "i", "n", "t">>

\* openClTypeName<DeviceType>::get() of CoreTypes.hpp: specialised for
\* cl_float and cl_double; for cl_uint the general template returns
\* typeid(cl_uint).name(), which is "j" in the build (GCC)
openClTypeName(type) ==
    CASE type = "double" -> <<"d", "o", "u", "b", "l", "e">>
      [] type = "float" -> <<"f", "l", "o", "a", "t">>
      [] type = "uint" -> <<"j">>

\* std::toupper on the characters that type names begin with
toupper(c) ==
    CASE c = "d" -> "D"
      [] c = "f" -> "F"
      [] c = "u" -> "U"
      [] c = "j" -> "J"
      [] OTHER -> c

\* type_name[0] = std::toupper(type_name[0])
Capitalised(name) == [i \in 1..Len(name) |-> IF i = 1 THEN toupper(name[i]) ELSE name[i]]

\* "CooMaxElements" + std::to_string(max_elements) + "BaseType" + type_name
LayoutIdText(max_elements, type_name) ==
    CooMaxElementsText \o to_string(max_elements) \o BaseTypeText \o Capitalised(type_name)

\* the capacities the layouts are instantiated with: 100 in
\* createCooDataLayout, the four buckets in the private header
LayoutCapacities(path) == IF path = "details" THEN {100} ELSE {200, 2000, 20000, 200000}

NoLayoutId == [path |-> "none", max_elements |-> 0, type |-> "none", num_edges |-> 0, id |-> <<>>]

LayoutIdLast(path, max_elements, type, num_edges, id) ==
    [op |-> "dataLayoutId", status |-> "ok",
     layout |-> [path |-> path, max_elements |-> max_elements, type |-> type,
                 num_edges |-> num_edges, id |-> id],
     previous |-> IF last.op = "dataLayoutId" THEN last.layout ELSE NoLayoutId]

\* CooDataLayout::dataLayoutId of a layout of any type and edge count
dataLayoutId ==
    /\ \E max_elements \in LayoutCapacities("details"), type \in HostTypes,
          num_edges \in 0..MaxEdges :
            last' = LayoutIdLast("details", max_elements, type, num_edges,
                                 LayoutIdText(max_elements, typeName(type)))
    /\ UNCHANGED <<DEBUG, sized, ds, mem, dd, queue, DataType, sources, registry>>

\* the data_structure_id_ that CooDataStructureImpl::initialiseExportableSource
\* computes for a data structure of any capacity, type and edge count
initialiseExportableSource ==
    /\ \E max_elements \in LayoutCapacities("private"), type \in HostTypes,
          num_edges \in 0..MaxEdges :
            last' = LayoutIdLast("private", max_elements, type, num_edges,
                                 LayoutIdText(max_elements, openClTypeName(type)))
    /\ UNCHANGED <<DEBUG, sized, ds, mem, dd, queue, DataType, sources, registry>>

InitLayoutId == InitCommon /\ DEBUG \in BOOLEAN /\ DataType = BaseType

NextLayoutId == dataLayoutId \/ initialiseExportableSource

SpecLayoutId == InitLayoutId /\ [][NextLayoutId]_vars

\* C26: two layouts have the same identifier exactly when they have the same
\* capacity and the same element type, whatever their contents
C26_IdInjective ==
    (last.op = "dataLayoutId" /\ last.previous # NoLayoutId)
        => (last.layout.id = last.previous.id
              <=> /\ last.layout.max_elements = last.previous.max_elements
                  /\ last.layout.type = last.previous.type)

\* two layouts of the same capacity and type and of different edge counts
\* have both the identifier CooMaxElements200BaseTypeDouble
C26_Witness ==
    /\ last.op = "dataLayoutId"
    /\ last.previous # NoLayoutId
    /\ last.layout.num_edges # last.previous.num_edges
    /\ last.layout.id = last.previous.id
    /\ last.layout.id = CooMaxElementsText \o <<"2", "0", "0">> \o BaseTypeText
                            \o <<"D", "o", "u", "b", "l", "e">>

-----------------------------------------------------------------------------
(* Claims on the bounds of the layout arrays (SpecSize) *)

\* C27: every layout that a construction hands back has an edge count that
\* is at most its capacity, and the construction has written no input entry
\* at or beyond index capacity of the arrays, whatever the input length and
\* the build configuration
C27_EdgeCountWithinCapacity ==
    sized.outcome = "layout" => (sized.n <= sized.capacity /\ ~sized.ub)

-----------------------------------------------------------------------------
(* The loop of iReplaceSubstring, one iteration at a time (SpecReplace) *)

ScanTexts == SeqsUpTo(SrcChars, MaxScan)

\* the replacement texts: the short ones, the token itself, and texts that
\* hold the token behind or before another character
ReplaceTexts ==
    SubstituteTexts \cup {MacroToken(n) : n \in MacroNames}
        \cup {<<"X">> \o MacroToken(n) : n \in MacroNames}
        \cup {MacroToken(n) \o <<"_">> : n \in MacroNames}

\* a search that starts again at the place of the replacement
NextIndex_rescan(found, replace_with) == found

\* index += replace_with.length(), index being where the token was found
NextIndex(found, replace_with) == found + Len(replace_with)

ReplaceLast(pc, original, in_string, to_replace, replace_with, index, iterations) ==
    [op |-> "iReplaceSubstring", pc |-> pc, original |-> original,
     in_string |-> in_string, to_replace |-> to_replace,
     replace_with |-> replace_with, index |-> index, iterations |-> iterations]

\* substituteMacro calls iReplaceSubstring(text_, "__" + macro_name + "__",
\* substitute_text): the precondition, then index = 0
iReplaceSubstringEnter ==
    /\ last = NoLast
    /\ \E macro_name \in MacroNames, substitute_text \in ReplaceTexts :
         LET token == MacroToken(macro_name)
             ok == iReplaceSubstringChecks(DEBUG, sources.A, token)
         IN  last' = ReplaceLast(IF ok THEN "loop" ELSE "throw", sources.A, sources.A,
                                 token, substitute_text, 1, 0)
    /\ UNCHANGED <<DEBUG, sized, ds, mem, dd, queue, DataType, sources, registry>>

\* one iteration of while (true): find from index; leave the loop and assign
\* the result to text_ if there is nothing, else replace and advance index
iReplaceSubstringLoop ==
    /\ last # NoLast
    /\ last.op = "iReplaceSubstring"
    /\ last.pc = "loop"
    /\ LET found == Find(last.in_string, last.to_replace, last.index) IN
       IF found = 0
       THEN /\ last' = [last EXCEPT !.pc = "return"]
            /\ sources' = [sources EXCEPT !.A = last.in_string]
       ELSE /\ last' = [last EXCEPT
                          !.in_string = StringReplace(@, found, Len(last.to_replace),
                                                      last.replace_with),
                          !.index = NextIndex(found, last.replace_with),
                          !.iterations = @ + 1]
            /\ UNCHANGED sources
    /\ UNCHANGED <<DEBUG, sized, ds, mem, dd, queue, DataType, registry>>

InitReplace ==
    /\ InitObjects
    /\ DEBUG \in BOOLEAN
    /\ DataType = BaseType
    /\ registry = ReadyRegistry
    /\ sources \in [A : ScanTexts, B : {<<>>}]

NextReplace == iReplaceSubstringEnter \/ iReplaceSubstringLoop

\* the host thread goes on running: an iteration that can be taken is taken
SpecReplace == InitReplace /\ [][NextReplace]_vars /\ WF_vars(iReplaceSubstringLoop)

\* one pass over a text from position pos, left to right: every occurrence of
\* to_replace that begins behind the end of the occurrence before it is
\* replaced, and nothing else
RECURSIVE ScanOnce(_, _, _, _)
ScanOnce(text, to_replace, replace_with, pos) ==
    LET found == Find(text, to_replace, pos)
    IN  IF found = 0
        THEN SubSeq(text, pos, Len(text))
        ELSE SubSeq(text, pos, found - 1) \o replace_with
                 \o ScanOnce(text, to_replace, replace_with, found + Len(to_replace))

\* what is still to be searched, from index on, is an end of the original
\* text: nothing that was put in
RestIsOriginal ==
    LET rest == SubSeq(last.in_string, last.index, Len(last.in_string))
        n == Len(last.original)
    IN  /\ last.index <= Len(last.in_string) + 1
        /\ Len(rest) <= n
        /\ rest = SubSeq(last.original, n - Len(rest) + 1, n)

InReplace == last # NoLast /\ last.op = "iReplaceSubstring"

\* C28: substituteMacro terminates for every source text, macro name and
\* replacement, also an empty one and one that contains the token: every
\* call returns or throws, after at most one iteration per non-overlapping
\* occurrence in the original text; the search never looks at text it has put
\* in, and the result is the original text with each non-overlapping
\* occurrence, from left to right, replaced once
C28_Terminates ==
    /\ [](InReplace /\ last.pc # "throw"
            => /\ RestIsOriginal
               /\ last.iterations * Len(last.to_replace) <= Len(last.original)
               /\ last.pc = "return"
                    => /\ last.in_string = ScanOnce(last.original, last.to_replace,
                                                    last.replace_with, 1)
                       /\ sources.A = last.in_string)
    /\ (InReplace ~> (InReplace /\ last.pc \in {"return", "throw"}))

\* a text with two occurrences of the token was given a replacement that
\* contains the token, and the call has returned after two replacements
C28_Witness ==
    /\ InReplace
    /\ last.pc = "return"
    /\ last.iterations = 2
    /\ Contains(last.replace_with, last.to_replace)
    /\ Contains(last.in_string, last.to_replace)

-----------------------------------------------------------------------------
(* The kernel that allNodes takes from the compiled program (SpecEntry) *)

\* names of entry points, each a name of one token
EntryNames == {<<"allNodesKernel">>, <<"allNodes">>, <<"other">>, <<"another">>}

\* the entry points of a built program, in the order the driver lists them
EntryLists ==
    {ks \in SeqsUpTo(EntryNames, MaxEntry) :
        \A i, j \in 1..Len(ks) : i # j => ks[i] # ks[j]}

\* std::string kernel_name(...) of the two allNodes
WantedKernel(path) == IF path = "details" THEN <<"allNodesKernel">> ELSE <<"allNodes">>

EntryLast(op, path, status, program, compiled_kernels_, launched) ==
    [op |-> op, path |-> path, status |-> status, program |-> program,
     compiled_kernels_ |-> compiled_kernels_, launched |-> launched]

\* DataStructureImpl::compileSpecialisedKernels, called by the constructor:
\* compiled_kernels_ = compileAllKernels(kernel_sources), one DeviceKernel
\* for every name of iGetKernelNames, in that order
compileSpecialisedKernels ==
    /\ last = NoLast
    /\ \E program \in EntryLists :
         last' = EntryLast("compileSpecialisedKernels", "details", "ok", program,
                           iGetKernelNames(program), <<>>)
    /\ UNCHANGED <<DEBUG, sized, ds, mem, dd, queue, DataType, sources, registry>>

\* DataStructureImpl::allNodes: device_kernel = compiled_kernels_[0]; on an
\* empty vector that is undefined: any kernel, or the end of the program
allNodesFirstKernel ==
    /\ last # NoLast
    /\ last.op = "compileSpecialisedKernels"
    /\ IF last.compiled_kernels_ = <<>>
       THEN \E any \in EntryNames \cup {<<"crash">>} :
                last' = [last EXCEPT !.op = "allNodes", !.launched = any,
                                     !.status = IF any = <<"crash">> THEN "crash" ELSE "ok"]
       ELSE last' = [last EXCEPT !.op = "allNodes",
                                 !.launched = last.compiled_kernels_[1]]
    /\ UNCHANGED <<DEBUG, sized, ds, mem, dd, queue, DataType, sources, registry>>

\* allNodes of the private header: compileKernel(kernel_source, kernel_name)
\* returns the kernel of that name or throws, and the kernel is kept and
\* looked up under kernel_name
allNodesNamedKernel ==
    /\ last = NoLast
    /\ \E program \in EntryLists :
         LET kernel_name == WantedKernel("private")
             found == kernel_name \in Range(iGetKernelNames(program))
         IN  last' = EntryLast("allNodes", "private", IF found THEN "ok" ELSE "error",
                               program, IF found THEN <<kernel_name>> ELSE <<>>,
                               IF found THEN kernel_name ELSE <<>>)
    /\ UNCHANGED <<DEBUG, sized, ds, mem, dd, queue, DataType, sources, registry>>

InitEntry == InitCommon /\ DEBUG \in BOOLEAN /\ DataType = BaseType

NextEntry == compileSpecialisedKernels \/ allNodesFirstKernel \/ allNodesNamedKernel

SpecEntry == InitEntry /\ [][NextEntry]_vars

\* C29: the kernel that allNodes launches is the entry point of the compiled
\* program that has the name allNodes asks for (allNodesKernel), whatever the
\* number of entry points of the program and the order the driver lists them in
C29_LaunchesNamedKernel ==
    (last # NoLast /\ last.op = "allNodes"
        /\ WantedKernel(last.path) \in Range(last.program))
        => last.launched = WantedKernel(last.path)

-----------------------------------------------------------------------------
(* The staging array of moveToDevice, step by step (SpecStaging) *)

\* a write that returns as soon as it is enqueued
BlockingWrite_false == FALSE

\* enqueueWriteBuffer(out_data, CL_TRUE, ...): the call returns when the
\* write has completed
BlockingWrite == TRUE

StagingLast(pc, array, mem_flag, staging, num_bytes) ==
    [op |-> "moveToDevice", pc |-> pc, array |-> array, mem_flag |-> mem_flag,
     device_like_array |-> [live |-> TRUE, data |-> staging],
     num_bytes |-> num_bytes, out_data |-> 0,
     written |-> FALSE, read_released |-> FALSE]

InStaging == last # NoLast /\ last.op = "moveToDevice"

\* moveToDevice(array, mem_flag) begins: convertToDeviceArray allocates the
\* staging array with new[] and fills it
moveToDeviceConvert ==
    /\ last = NoLast
    /\ \E array \in HostArrays, mem_flag \in AccessType :
         last' = StagingLast("converted", array, mem_flag,
                             convertToDeviceArray(array, DataType),
                             SizeOf(DataType) * Len(array))
    /\ UNCHANGED <<DEBUG, sized, ds, mem, dd, queue, DataType, sources, registry>>

\* writeRawDataToDevice up to the enqueueing: the buffer is created, which
\* throws for 0 bytes, and the write from the staging array is enqueued
writeRawDataToDeviceEnqueue ==
    /\ InStaging
    /\ last.pc = "converted"
    /\ IF last.num_bytes = 0
       THEN /\ last' = [last EXCEPT !.pc = "thrown"]
            /\ UNCHANGED <<mem, queue>>
       ELSE LET out_data == NewId(mem, queue) IN
            /\ mem' = [mem EXCEPT ![out_data] =
                          Buffer(last.num_bytes, last.mem_flag,
                                 [i \in 1..Len(last.array) |-> 0])]
            /\ queue' = Append(queue, [op |-> "write", args |-> <<out_data>>,
                                       data |-> <<>>])
            /\ last' = [last EXCEPT !.pc = "writing", !.out_data = out_data]
    /\ UNCHANGED <<DEBUG, sized, ds, dd, DataType, sources, registry>>

\* the device carries out the write: it reads the host memory the command
\* points to, which holds the staging array or, once released, anything
DeviceWrite ==
    /\ InStaging
    /\ queue # <<>>
    /\ \E seen \in IF last.device_like_array.live
                   THEN {last.device_like_array.data}
                   ELSE [1..Len(last.array) -> 0..MaxVal] :
         mem' = [mem EXCEPT ![last.out_data].data = seen]
    /\ queue' = Tail(queue)
    /\ last' = [last EXCEPT !.written = TRUE,
                            !.read_released = ~last.device_like_array.live]
    /\ UNCHANGED <<DEBUG, sized, ds, dd, DataType, sources, registry>>

\* enqueueWriteBuffer returns, and writeRawDataToDevice with it
writeRawDataToDeviceReturn ==
    /\ InStaging
    /\ last.pc = "writing"
    /\ BlockingWrite => queue = <<>>
    /\ last' = [last EXCEPT !.pc = "enqueued"]
    /\ UNCHANGED <<DEBUG, sized, ds, mem, dd, queue, DataType, sources, registry>>

\* delete device_like_array; return ret
moveToDeviceDelete ==
    /\ InStaging
    /\ last.pc = "enqueued"
    /\ last' = [last EXCEPT !.pc = "returned", !.device_like_array.live = FALSE]
    /\ UNCHANGED <<DEBUG, sized, ds, mem, dd, queue, DataType, sources, registry>>

InitStaging == InitCommon /\ DEBUG = FALSE /\ DataType \in HostTypes

NextStaging ==
    \/ moveToDeviceConvert
    \/ writeRawDataToDeviceEnqueue
    \/ DeviceWrite
    \/ writeRawDataToDeviceReturn
    \/ moveToDeviceDelete

SpecStaging == InitStaging /\ [][NextStaging]_vars

\* C30: moveToDevice releases its staging array only after the device write
\* that reads from it has completed, and the write never reads released
\* memory: the buffer holds the converted array when moveToDevice returns
C30_StagingOutlivesWrite ==
    InStaging
        => /\ ~last.read_released
           /\ ~last.device_like_array.live => (last.written /\ queue = <<>>)
           /\ last.pc = "returned" => mem[last.out_data].data = last.device_like_array.data

\* moveToDevice of <<2, 1>> has returned: the write is done, the staging
\* array is released and the buffer holds 2, 1
C30_Witness ==
    /\ InStaging
    /\ last.pc = "returned"
    /\ last.written
    /\ ~last.device_like_array.live
    /\ mem[last.out_data].data = <<2, 1>>

====
